---------------------------- MODULE Spec2Model ----------------------------
(***************************************************************************)
(* A model of garmin.py (GarminHRZoneInjector): the step classifier, the   *)
(* recursive walker over nested repeat groups, modify_workout, and the     *)
(* process_all_workouts loop with its external fetch and update calls.     *)
(*                                                                         *)
(* JSON values.  A dict is a TLA+ function whose domain is the set of keys *)
(* that are present, so  k \in DOMAIN d  is Python's  k in d.  A null is   *)
(* Null, an integer n is N(n) and a string is S(..).  A string the code    *)
(* lower-cases or searches (step type key, description, workout name,      *)
(* name filter) is S of a sequence of one-character strings; a string the  *)
(* code only copies or compares whole is S of a TLA+ string.               *)
(***************************************************************************)
EXTENDS Integers, Sequences, FiniteSets, TLC

VARIABLES
    pc,             \* position of the running operation
    hr_zone,        \* self.hr_zone
    verbose,        \* the verbose flag
    dry_run,        \* the dry_run flag
    filter_name,    \* the filter_name argument (Null when not given)
    step,           \* classifier runs: the leaf step handed to the classifier
    verdict,        \* classifier runs: what the three predicates returned
    tree,           \* walker runs: the workout as it was before any pass
    passes,         \* walker runs: the result of each pass, in order
    remote,         \* the service: <<[summary, detail]>> in listing order
    workouts,       \* process_all_workouts: the listed summaries
    i,              \* process_all_workouts: index of the current summary
    workout,        \* process_all_workouts: the workout in memory
    modified_count, \* process_all_workouts: steps modified in this workout
    modified_total, \* process_all_workouts: steps modified in the run
    processed,      \* process_all_workouts: workouts updated in the run
    out,            \* process_all_workouts: the lines printed so far
    puts            \* the PUT requests update_workout has issued so far

vars == <<pc, hr_zone, verbose, dry_run, filter_name, step, verdict, tree,
          passes, remote, workouts, i, workout, modified_count,
          modified_total, processed, out, puts>>

---------------------------------------------------------------------------
(* Bounds of the model. *)

MaxStepTypeId == 5
MaxTargetTypeId == 5
MaxZone == 2
MaxNodes == 3
MaxWorkouts == 2

---------------------------------------------------------------------------
(* JSON values and Python's dict and str operations. *)

Null == [null |-> TRUE]
S(s) == [str |-> s]
N(n) == [int |-> n]

EmptyDict == [k \in {} |-> Null]

Get(d, k, default) == IF k \in DOMAIN d THEN d[k] ELSE default

Put(d, k, v) == [x \in DOMAIN d \cup {k} |-> IF x = k THEN v ELSE d[x]]

LowerChar(c) ==
    CASE c = "A" -> "a" [] c = "B" -> "b" [] c = "C" -> "c" [] c = "D" -> "d"
      [] c = "E" -> "e" [] c = "F" -> "f" [] c = "G" -> "g" [] c = "H" -> "h"
      [] c = "I" -> "i" [] c = "J" -> "j" [] c = "K" -> "k" [] c = "L" -> "l"
      [] c = "M" -> "m" [] c = "N" -> "n" [] c = "O" -> "o" [] c = "P" -> "p"
      [] c = "Q" -> "q" [] c = "R" -> "r" [] c = "S" -> "s" [] c = "T" -> "t"
      [] c = "U" -> "u" [] c = "V" -> "v" [] c = "W" -> "w" [] c = "X" -> "x"
      [] c = "Y" -> "y" [] c = "Z" -> "z"
      [] OTHER -> c

Lower(cs) == [k \in 1..Len(cs) |-> LowerChar(cs[k])]

Contains(pattern, cs) ==
    \E text \in {cs} :
        \E k \in 0..(Len(text) - Len(pattern)) :
            SubSeq(text, k + 1, k + Len(pattern)) = pattern

---------------------------------------------------------------------------
(* Module constants of garmin.py. *)

EASY_STEP_KEYS ==
    { <<"w", "a", "r", "m", "u", "p">>,
      <<"c", "o", "o", "l", "d", "o", "w", "n">>,
      <<"r", "e", "c", "o", "v", "e", "r", "y">> }

EASY_STEP_IDS == {1, 2, 3}

EASY_DESCRIPTION_PATTERNS ==
    << <<"c", "o", "n", "v", "e", "r", "s", "a", "t", "i", "o", "n", "a", "l">>,
       <<"e", "a", "s", "y">>,
       <<"s", "l", "o", "w">> >>

HARD_DESCRIPTION_PATTERNS ==
    << <<"p", "u", "s", "h", "i", "n", "g">>,
       <<"f", "a", "s", "t">>,
       <<"h", "a", "r", "d">>,
       <<"t", "e", "m", "p", "o">>,
       <<"t", "h", "r", "e", "s", "h", "o", "l", "d">>,
       <<"r", "a", "c", "e">>,
       <<"s", "p", "r", "i", "n", "t">> >>

INTERVAL_KEY == <<"i", "n", "t", "e", "r", "v", "a", "l">>

HR_ZONE_TARGET_TYPE_sentinel ==
    [workoutTargetTypeId |-> N(1), workoutTargetTypeKey |-> S("heart.rate.zone")]

HR_ZONE_TARGET_TYPE ==
    [workoutTargetTypeId |-> N(4), workoutTargetTypeKey |-> S("heart.rate.zone")]

NO_TARGET_TYPE_ID == 1

DEFAULT_HR_ZONE == 2

---------------------------------------------------------------------------
(* The step classifier. *)

AnyPatternIn(patterns, description) ==
    \E text \in {description} :
        \E p \in 1..Len(patterns) : Contains(patterns[p], text)

step_key_of(s) ==
    Lower(Get(Get(s, "stepType", EmptyDict), "stepTypeKey", S(<<>>)).str)

step_id_of(s) == Get(Get(s, "stepType", EmptyDict), "stepTypeId", Null)

description_of(s) ==
    LET d == Get(s, "description", Null)
    IN  Lower(IF d = Null THEN <<>> ELSE d.str)

IdIn(step_id, ids) == step_id # Null /\ step_id.int \in ids

is_easy_step_type_first(s) ==
    IF step_key_of(s) \in EASY_STEP_KEYS \/ IdIn(step_id_of(s), EASY_STEP_IDS)
    THEN TRUE
    ELSE IF AnyPatternIn(HARD_DESCRIPTION_PATTERNS, description_of(s))
    THEN FALSE
    ELSE IF step_key_of(s) = INTERVAL_KEY \/ step_id_of(s) = N(3)
    THEN AnyPatternIn(EASY_DESCRIPTION_PATTERNS, description_of(s))
    ELSE FALSE

is_easy_step(s) ==
    IF AnyPatternIn(HARD_DESCRIPTION_PATTERNS, description_of(s))
    THEN FALSE
    ELSE IF step_key_of(s) \in EASY_STEP_KEYS \/ IdIn(step_id_of(s), EASY_STEP_IDS)
    THEN TRUE
    ELSE IF step_key_of(s) = INTERVAL_KEY \/ step_id_of(s) = N(3)
    THEN AnyPatternIn(EASY_DESCRIPTION_PATTERNS, description_of(s))
    ELSE FALSE

has_no_target_absent_only(s) == Get(s, "targetType", Null) = Null

has_no_target(s) ==
    LET target_type == Get(s, "targetType", Null)
    IN  IF target_type = Null
        THEN TRUE
        ELSE LET target_id == Get(target_type, "workoutTargetTypeId", Null)
             IN  target_id = Null \/ target_id = N(NO_TARGET_TYPE_ID)

should_add_hr_zone(s) == is_easy_step(s) /\ has_no_target(s)

---------------------------------------------------------------------------
(* The mutation and the walker. *)

add_hr_zone_to_step_clobber(s, zone) ==
    Put(Put(Put(Put(Put(s, "targetType", HR_ZONE_TARGET_TYPE),
                    "targetValueOne", N(zone)),
                "targetValueTwo", Null),
            "zoneNumber", N(zone)),
        "description", Null)

add_hr_zone_to_step(s, zone) ==
    Put(Put(Put(Put(s, "targetType", HR_ZONE_TARGET_TYPE),
                "targetValueOne", N(zone)),
            "targetValueTwo", Null),
        "zoneNumber", N(zone))

describe_step(s) ==
    LET step_type     == Get(Get(s, "stepType", EmptyDict), "stepTypeKey", S(<<"?">>))
        end_condition == Get(Get(s, "endCondition", EmptyDict), "conditionTypeKey", S("?"))
        end_value     == Get(s, "endConditionValue", Null)
        truthy        == end_value # Null /\ end_value.int # 0
        duration      == IF end_condition = S("time") /\ truthy
                         THEN [min |-> end_value.int \div 60, sec |-> end_value.int % 60]
                         ELSE IF end_condition = S("distance") /\ truthy
                         THEN [m |-> end_value.int]
                         ELSE [key |-> end_condition]
        target        == Get(s, "targetType", Null)
        target_type   == Get(IF target = Null THEN EmptyDict ELSE target,
                             "workoutTargetTypeKey", S("none"))
        target_val    == Get(s, "targetValueOne", S(""))
    IN  [step_type |-> step_type, duration |-> duration,
         target_type |-> target_type, target_val |-> target_val]

Line(verb, line) == IF verb THEN <<line>> ELSE <<>>

process_leaf_no_count(s, count, verb, zone) ==
    IF should_add_hr_zone(s)
    THEN [step |-> add_hr_zone_to_step(s, zone),
          modified_count |-> count,
          out |-> Line(verb, [msg |-> "+", step |-> describe_step(s), zone |-> zone])]
    ELSE [step |-> s,
          modified_count |-> count,
          out |-> Line(verb, [msg |-> "-", step |-> describe_step(s)])]

process_leaf(s, count, verb, zone) ==
    IF should_add_hr_zone(s)
    THEN [step |-> add_hr_zone_to_step(s, zone),
          modified_count |-> count + 1,
          out |-> Line(verb, [msg |-> "+", step |-> describe_step(s), zone |-> zone])]
    ELSE [step |-> s,
          modified_count |-> count,
          out |-> Line(verb, [msg |-> "-", step |-> describe_step(s)])]

\* The value bound by a local assignment: Bind({e}) is e, evaluated once.
Bind(singleton) == CHOOSE x \in singleton : TRUE

RECURSIVE process_workout_steps(_, _, _, _), process_step(_, _, _, _)
process_step(s, count, verb, zone) ==
    IF "workoutSteps" \in DOMAIN s
    THEN Bind({ [step |-> [s EXCEPT !.workoutSteps = nested.steps],
                 modified_count |-> nested.modified_count,
                 out |-> nested.out] :
                nested \in {process_workout_steps(s.workoutSteps, count, verb, zone)} })
    ELSE process_leaf(s, count, verb, zone)

process_workout_steps(steps, count, verb, zone) ==
    IF steps = <<>>
    THEN [steps |-> <<>>, modified_count |-> count, out |-> <<>>]
    ELSE Bind({ Bind({ [steps |-> <<first.step>> \o rest.steps,
                        modified_count |-> rest.modified_count,
                        out |-> first.out \o rest.out] :
                       rest \in {process_workout_steps(
                                     Tail(steps), first.modified_count, verb, zone)} }) :
                first \in {process_step(Head(steps), count, verb, zone)} })

modify_segment(segment, verb, zone) ==
    IF "workoutSteps" \in DOMAIN segment
    THEN Bind({ [segment |-> [segment EXCEPT !.workoutSteps = walked.steps],
                 modified |-> walked.modified_count,
                 out |-> walked.out] :
                walked \in {process_workout_steps(segment.workoutSteps, 0, verb, zone)} })
    ELSE [segment |-> segment, modified |-> 0, out |-> <<>>]

RECURSIVE modify_segments(_, _, _)
modify_segments(segments, verb, zone) ==
    IF segments = <<>>
    THEN [segments |-> <<>>, total_modified |-> 0, out |-> <<>>]
    ELSE Bind({ Bind({ [segments |-> <<first.segment>> \o rest.segments,
                        total_modified |-> first.modified + rest.total_modified,
                        out |-> first.out \o rest.out] :
                       rest \in {modify_segments(Tail(segments), verb, zone)} }) :
                first \in {modify_segment(Head(segments), verb, zone)} })

modify_workout(w, verb, zone) ==
    IF "workoutSegments" \notin DOMAIN w
    THEN [workout |-> w, total_modified |-> 0,
          out |-> <<[msg |-> "No workout segments found",
                     name |-> Get(w, "workoutName", S(<<"U", "n", "k", "n", "o", "w", "n">>))]>>]
    ELSE Bind({ [workout |-> [w EXCEPT !.workoutSegments = done.segments],
                 total_modified |-> done.total_modified,
                 out |-> done.out] :
                done \in {modify_segments(w.workoutSegments, verb, zone)} })

---------------------------------------------------------------------------
(* Inputs: the leaf steps handed to the classifier. *)

Opt(k, values) == {EmptyDict} \cup {k :> v : v \in values}

StepKeyPool ==
    { <<"w", "a", "r", "m", "u", "p">>,
      <<"c", "o", "o", "l", "d", "o", "w", "n">>,
      <<"r", "e", "c", "o", "v", "e", "r", "y">>,
      <<"i", "n", "t", "e", "r", "v", "a", "l">>,
      <<"I", "n", "t", "e", "r", "v", "a", "l">>,
      <<"W", "A", "R", "M", "U", "P">>,
      <<"r", "e", "s", "t">>,
      <<"o", "t", "h", "e", "r">> }

StepIdPool == {Null} \cup {N(n) : n \in 1..MaxStepTypeId}

StepTypePool ==
    { a @@ b : a \in Opt("stepTypeKey", {S(k) : k \in StepKeyPool}),
               b \in Opt("stepTypeId", StepIdPool) } \ {EmptyDict}

DescriptionPool ==
    { Null,
      S(<<>>),
      S(<<"c", "o", "n", "v", "e", "r", "s", "a", "t", "i", "o", "n", "a", "l">>),
      S(<<"E", "a", "s", "y", " ", "j", "o", "g">>),
      S(<<"S", "L", "O", "W">>),
      S(<<"s", "t", "e", "a", "d", "y">>),
      S(<<"p", "u", "s", "h", "i", "n", "g">>),
      S(<<"b", "r", "e", "a", "k", "f", "a", "s", "t">>),
      S(<<"H", "a", "r", "d">>),
      S(<<"e", "a", "s", "y", " ", "t", "e", "m", "p", "o">>),
      S(<<"t", "h", "r", "e", "s", "h", "o", "l", "d">>),
      S(<<"R", "a", "c", "e", " ", "P", "a", "c", "e">>),
      S(<<"s", "l", "o", "w", " ", "s", "p", "r", "i", "n", "t">>) }

TargetTypePool ==
    {Null}
    \cup { a @@ [workoutTargetTypeKey |-> S("some.target")] :
             a \in Opt("workoutTargetTypeId",
                       {Null} \cup {N(n) : n \in 1..MaxTargetTypeId}) }

LeafPool ==
    { a @@ b @@ c @@ [endCondition |-> [conditionTypeKey |-> S("time")],
                      endConditionValue |-> N(300)] :
        a \in Opt("stepType", StepTypePool),
        b \in Opt("description", DescriptionPool),
        c \in Opt("targetType", TargetTypePool) }

---------------------------------------------------------------------------
(* Inputs: step trees and the workouts that hold them. *)

WarmupLeaf ==
    [stepType |-> [stepTypeId |-> N(1), stepTypeKey |-> S(<<"w", "a", "r", "m", "u", "p">>)],
     endCondition |-> [conditionTypeKey |-> S("lap.button")]]

EasyIntervalLeaf ==
    [stepType |-> [stepTypeKey |-> S(<<"i", "n", "t", "e", "r", "v", "a", "l">>)],
     description |-> S(<<"E", "a", "s", "y", " ", "j", "o", "g">>),
     endCondition |-> [conditionTypeKey |-> S("time")],
     endConditionValue |-> N(300),
     targetType |-> [workoutTargetTypeId |-> N(1), workoutTargetTypeKey |-> S("no.target")],
     targetValueOne |-> Null]

HardIntervalLeaf ==
    [stepType |-> [stepTypeKey |-> S(<<"i", "n", "t", "e", "r", "v", "a", "l">>)],
     description |-> S(<<"R", "a", "c", "e", " ", "P", "a", "c", "e">>),
     endCondition |-> [conditionTypeKey |-> S("distance")],
     endConditionValue |-> N(1000)]

TargetedRecoveryLeaf ==
    [stepType |-> [stepTypeId |-> N(4), stepTypeKey |-> S(<<"r", "e", "c", "o", "v", "e", "r", "y">>)],
     endCondition |-> [conditionTypeKey |-> S("time")],
     endConditionValue |-> N(90),
     targetType |-> [workoutTargetTypeId |-> N(6), workoutTargetTypeKey |-> S("pace.zone")],
     targetValueOne |-> N(3),
     targetValueTwo |-> N(4)]

TreeLeafPool == {WarmupLeaf, EasyIntervalLeaf, HardIntervalLeaf, TargetedRecoveryLeaf}

RepeatGroup(children) ==
    [stepType |-> [stepTypeId |-> N(6), stepTypeKey |-> S(<<"r", "e", "p", "e", "a", "t">>)],
     numberOfIterations |-> N(2),
     workoutSteps |-> children]

WarmupTypedGroup(children) ==
    [stepType |-> [stepTypeId |-> N(1), stepTypeKey |-> S(<<"w", "a", "r", "m", "u", "p">>)],
     workoutSteps |-> children]

RECURSIVE ForestOfSize(_), NodeOfSize(_)
ForestOfSize(n) ==
    IF n = 0
    THEN {<<>>}
    ELSE UNION { { <<nd>> \o rest : nd \in NodeOfSize(k), rest \in ForestOfSize(n - k) } :
                 k \in 1..n }

NodeOfSize(k) ==
    (IF k = 1 THEN TreeLeafPool ELSE {})
    \cup { RepeatGroup(f) : f \in ForestOfSize(k - 1) }
    \cup { WarmupTypedGroup(f) : f \in ForestOfSize(k - 1) }

ForestPool == UNION { ForestOfSize(n) : n \in 0..MaxNodes }

Segment(order, steps) == [segmentOrder |-> N(order), workoutSteps |-> steps]

SegmentsPool ==
    {<<>>}
    \cup { <<Segment(1, f)>> : f \in ForestPool }
    \cup { <<[segmentOrder |-> N(1)], Segment(2, f)>> : f \in ForestPool }
    \cup UNION { { <<Segment(1, SubSeq(f, 1, k)), Segment(2, SubSeq(f, k + 1, Len(f)))>> :
                   k \in 1..(Len(f) - 1) } : f \in ForestPool }

RunnaName == <<"R", "u", "n", "n", "a", " ", "E", "a", "s", "y">>

WorkoutPool ==
    { [workoutId |-> N(1), workoutName |-> S(RunnaName)] }
    \cup { [workoutId |-> N(1), workoutName |-> S(RunnaName), workoutSegments |-> segs] :
             segs \in SegmentsPool }

---------------------------------------------------------------------------
(* Classifier runs: one leaf step is classified, then handed to the walker *)
(* as a one-step sequence with a running count of 0.                       *)

NoRun ==
    /\ remote = <<>>
    /\ workouts = <<>>
    /\ i = 0
    /\ workout = Null
    /\ modified_count = 0
    /\ modified_total = 0
    /\ processed = 0
    /\ out = <<>>
    /\ puts = <<>>
    /\ dry_run = FALSE
    /\ filter_name = Null

runVars == <<remote, workouts, i, workout, modified_count, modified_total,
             processed, out, puts, dry_run, filter_name>>

ClassifyInit ==
    /\ pc = "step"
    /\ step \in LeafPool
    /\ verdict = Null
    /\ hr_zone = DEFAULT_HR_ZONE
    /\ verbose = TRUE
    /\ tree = Null
    /\ passes = <<>>
    /\ NoRun

Classify ==
    /\ pc = "step"
    /\ verdict' = [is_easy_step       |-> is_easy_step(step),
                   has_no_target      |-> has_no_target(step),
                   should_add_hr_zone |-> should_add_hr_zone(step)]
    /\ pc' = "classified"
    /\ UNCHANGED <<hr_zone, verbose, step, tree, passes, runVars>>

WalkLeaf ==
    /\ pc = "classified"
    /\ passes' = <<process_workout_steps(<<step>>, 0, verbose, hr_zone)>>
    /\ pc' = "walked"
    /\ UNCHANGED <<hr_zone, verbose, step, verdict, tree, runVars>>

ClassifyNext == Classify \/ WalkLeaf

ClassifySpec == ClassifyInit /\ [][ClassifyNext]_vars

---------------------------------------------------------------------------
(* Walker runs: modify_workout is applied to a workout, and then again to  *)
(* its own result.                                                         *)

TreeInit ==
    /\ pc = "tree"
    /\ tree \in WorkoutPool
    /\ passes = <<>>
    /\ hr_zone \in 1..MaxZone
    /\ verbose = TRUE
    /\ step = Null
    /\ verdict = Null
    /\ NoRun

ModifyOnce ==
    /\ pc = "tree"
    /\ passes' = <<modify_workout(tree, verbose, hr_zone)>>
    /\ pc' = "once"
    /\ UNCHANGED <<hr_zone, verbose, step, verdict, tree, runVars>>

ModifyAgain ==
    /\ pc = "once"
    /\ passes' = Append(passes, modify_workout(passes[1].workout, verbose, hr_zone))
    /\ pc' = "twice"
    /\ UNCHANGED <<hr_zone, verbose, step, verdict, tree, runVars>>

TreeNext == ModifyOnce \/ ModifyAgain

TreeSpec == TreeInit /\ [][TreeNext]_vars

---------------------------------------------------------------------------
(* The service's workouts, as list_workouts and get_workout_details return *)
(* them, and the configuration of a run.                                   *)

NoSegmentsDetail(id) == [workoutId |-> N(id), workoutName |-> S(RunnaName)]

NothingToDoDetail(id) ==
    [workoutId |-> N(id), workoutName |-> S(RunnaName),
     workoutSegments |-> <<Segment(1, <<HardIntervalLeaf, TargetedRecoveryLeaf>>)>>]

TwoEasyDetail(id) ==
    [workoutId |-> N(id), workoutName |-> S(RunnaName),
     workoutSegments |->
        <<Segment(1, <<WarmupLeaf>>),
          Segment(2, <<RepeatGroup(<<HardIntervalLeaf, EasyIntervalLeaf>>)>>)>>]

RunningSport == [sportType |-> [sportTypeId |-> N(1), sportTypeKey |-> S("running")]]

CyclingSport == [sportType |-> [sportTypeId |-> N(2), sportTypeKey |-> S("cycling")]]

EntryPool(id) ==
    { [summary |-> [workoutId |-> N(id), workoutName |-> S(RunnaName)] @@ RunningSport,
       detail  |-> d] :
        d \in {NoSegmentsDetail(id), NothingToDoDetail(id), TwoEasyDetail(id)} }
    \cup
    { [summary |-> sm @@ [workoutId |-> N(id)], detail |-> TwoEasyDetail(id)] :
        sm \in { [workoutName |-> S(<<"L", "o", "n", "g", " ", "R", "u", "n">>)] @@ RunningSport,
                 [workoutName |-> S(<<"T", "e", "m", "p", "o">>)] @@ RunningSport,
                 RunningSport,
                 [workoutName |-> S(RunnaName)] @@ CyclingSport,
                 [workoutName |-> S(RunnaName)] } }

RECURSIVE RemoteOfLength(_)
RemoteOfLength(n) ==
    IF n = 0
    THEN {<<>>}
    ELSE { Append(r, e) : r \in RemoteOfLength(n - 1), e \in EntryPool(n) }

RemotePool == UNION { RemoteOfLength(n) : n \in 0..MaxWorkouts }

FilterPool == { Null, S(<<>>), S(<<"R", "U", "N">>) }

---------------------------------------------------------------------------
(* process_all_workouts, split at its external calls, and main's handler. *)

sport_type_of(summary) ==
    Get(Get(summary, "sportType", EmptyDict), "sportTypeKey", S(""))

workout_name_of(summary) ==
    Get(summary, "workoutName", S(<<"U", "n", "k", "n", "o", "w", "n">>))

filter_rejects(filter, name) ==
    /\ filter # Null
    /\ filter.str # <<>>
    /\ ~Contains(Lower(filter.str), Lower(name.str))

get_workout_details(workout_id) ==
    remote[CHOOSE k \in 1..Len(remote) : remote[k].detail.workoutId = workout_id].detail

AtSummary == pc = "loop" /\ i <= Len(workouts)

harnessVars == <<step, verdict, tree, passes>>

config == <<hr_zone, verbose, dry_run, filter_name>>

Init ==
    /\ pc = "start"
    /\ remote \in RemotePool
    /\ hr_zone = DEFAULT_HR_ZONE
    /\ verbose \in BOOLEAN
    /\ dry_run \in BOOLEAN
    /\ filter_name \in FilterPool
    /\ workouts = <<>>
    /\ i = 0
    /\ workout = Null
    /\ modified_count = 0
    /\ modified_total = 0
    /\ processed = 0
    /\ out = <<>>
    /\ puts = <<>>
    /\ step = Null
    /\ verdict = Null
    /\ tree = Null
    /\ passes = <<>>

ListWorkouts ==
    /\ pc = "start"
    /\ workouts' = [k \in 1..Len(remote) |-> remote[k].summary]
    /\ out' = Append(out, [msg |-> "Found", n |-> Len(remote)])
    /\ processed' = 0
    /\ modified_total' = 0
    /\ i' = 1
    /\ pc' = "loop"
    /\ UNCHANGED <<config, harnessVars, remote, workout, modified_count, puts>>

ListWorkoutsRaises ==
    /\ pc = "start"
    /\ out' = Append(out, [msg |-> "Error"])
    /\ pc' = "exit1"
    /\ UNCHANGED <<config, harnessVars, remote, workouts, i, workout,
                   modified_count, modified_total, processed, puts>>

SkipSport ==
    /\ AtSummary
    /\ sport_type_of(workouts[i]) # S("running")
    /\ out' = out \o Line(verbose, [msg |-> "Skip",
                                    name |-> workout_name_of(workouts[i]),
                                    sport |-> sport_type_of(workouts[i])])
    /\ i' = i + 1
    /\ UNCHANGED <<pc, config, harnessVars, remote, workouts, workout,
                   modified_count, modified_total, processed, puts>>

SkipName ==
    /\ AtSummary
    /\ sport_type_of(workouts[i]) = S("running")
    /\ filter_rejects(filter_name, workout_name_of(workouts[i]))
    /\ i' = i + 1
    /\ UNCHANGED <<pc, config, harnessVars, remote, workouts, workout,
                   modified_count, modified_total, processed, out, puts>>

Selected ==
    /\ AtSummary
    /\ sport_type_of(workouts[i]) = S("running")
    /\ ~filter_rejects(filter_name, workout_name_of(workouts[i]))

Processing ==
    [msg |-> "Processing", name |-> workout_name_of(workouts[i]),
     id |-> Get(workouts[i], "workoutId", Null)]

Fetch ==
    /\ Selected
    /\ out' = Append(out, Processing)
    /\ workout' = get_workout_details(Get(workouts[i], "workoutId", Null))
    /\ pc' = "fetched"
    /\ UNCHANGED <<config, harnessVars, remote, workouts, i,
                   modified_count, modified_total, processed, puts>>

FetchRaises ==
    /\ Selected
    /\ out' = out \o <<Processing, [msg |-> "Error"]>>
    /\ pc' = "exit1"
    /\ UNCHANGED <<config, harnessVars, remote, workouts, i, workout,
                   modified_count, modified_total, processed, puts>>

Modify ==
    /\ pc = "fetched"
    /\ \E done \in {modify_workout(workout, verbose, hr_zone)} :
          /\ workout' = done.workout
          /\ modified_count' = done.total_modified
          /\ out' = out \o done.out
    /\ pc' = "classified"
    /\ UNCHANGED <<config, harnessVars, remote, workouts, i,
                   modified_total, processed, puts>>

NoChanges_falls_through ==
    /\ pc = "classified"
    /\ modified_count = 0
    /\ out' = Append(out, [msg |-> "No changes needed"])
    /\ pc' = "mutated"
    /\ UNCHANGED <<config, harnessVars, remote, workouts, i, workout,
                   modified_count, modified_total, processed, puts>>

NoChanges ==
    /\ pc = "classified"
    /\ modified_count = 0
    /\ out' = Append(out, [msg |-> "No changes needed"])
    /\ i' = i + 1
    /\ pc' = "loop"
    /\ UNCHANGED <<config, harnessVars, remote, workouts, workout,
                   modified_count, modified_total, processed, puts>>

ReportModified ==
    /\ pc = "classified"
    /\ modified_count # 0
    /\ out' = Append(out, [msg |-> "Modified", n |-> modified_count, zone |-> hr_zone])
    /\ modified_total' = modified_total + modified_count
    /\ pc' = "mutated"
    /\ UNCHANGED <<config, harnessVars, remote, workouts, i, workout,
                   modified_count, processed, puts>>

DryRun_pushes ==
    /\ pc = "mutated"
    /\ dry_run
    /\ puts' = Append(puts, [workoutId |-> Get(workout, "workoutId", Null),
                             json |-> workout, ok |-> TRUE])
    /\ out' = Append(out, [msg |-> "DRY RUN"])
    /\ i' = i + 1
    /\ pc' = "loop"
    /\ UNCHANGED <<config, harnessVars, remote, workouts, workout,
                   modified_count, modified_total, processed>>

DryRun ==
    /\ pc = "mutated"
    /\ dry_run
    /\ out' = Append(out, [msg |-> "DRY RUN"])
    /\ i' = i + 1
    /\ pc' = "loop"
    /\ UNCHANGED <<config, harnessVars, remote, workouts, workout,
                   modified_count, modified_total, processed, puts>>

update_request(w) == [workoutId |-> Get(w, "workoutId", Null), json |-> w]

UpdateOk_uncounted ==
    /\ pc = "mutated"
    /\ ~dry_run
    /\ puts' = Append(puts, update_request(workout) @@ [ok |-> TRUE])
    /\ remote' = [k \in 1..Len(remote) |->
                     IF remote[k].detail.workoutId = Get(workout, "workoutId", Null)
                     THEN [remote[k] EXCEPT !.detail = workout]
                     ELSE remote[k]]
    /\ out' = out \o <<[msg |-> "Updating"], [msg |-> "Updated successfully"]>>
    /\ i' = i + 1
    /\ pc' = "loop"
    /\ UNCHANGED <<config, harnessVars, workouts, workout, modified_count,
                   modified_total, processed>>

UpdateOk ==
    /\ pc = "mutated"
    /\ ~dry_run
    /\ puts' = Append(puts, update_request(workout) @@ [ok |-> TRUE])
    /\ remote' = [k \in 1..Len(remote) |->
                     IF remote[k].detail.workoutId = Get(workout, "workoutId", Null)
                     THEN [remote[k] EXCEPT !.detail = workout]
                     ELSE remote[k]]
    /\ out' = out \o <<[msg |-> "Updating"], [msg |-> "Updated successfully"]>>
    /\ processed' = processed + 1
    /\ i' = i + 1
    /\ pc' = "loop"
    /\ UNCHANGED <<config, harnessVars, workouts, workout, modified_count,
                   modified_total>>

UpdateRaises_aborts ==
    /\ pc = "mutated"
    /\ ~dry_run
    /\ puts' = Append(puts, update_request(workout) @@ [ok |-> FALSE])
    /\ out' = out \o <<[msg |-> "Updating"], [msg |-> "Error"]>>
    /\ pc' = "exit1"
    /\ UNCHANGED <<config, harnessVars, remote, workouts, i, workout,
                   modified_count, modified_total, processed>>

UpdateRaises ==
    /\ pc = "mutated"
    /\ ~dry_run
    /\ puts' = Append(puts, update_request(workout) @@ [ok |-> FALSE])
    /\ out' = out \o <<[msg |-> "Updating"], [msg |-> "Failed to update"],
                       [msg |-> "You may need to manually recreate this workout"]>>
    /\ i' = i + 1
    /\ pc' = "loop"
    /\ UNCHANGED <<config, harnessVars, remote, workouts, workout, modified_count,
                   modified_total, processed>>

Summary ==
    /\ pc = "loop"
    /\ i > Len(workouts)
    /\ out' = out \o <<[msg |-> "Summary", modified_total |-> modified_total,
                        processed |-> processed],
                       [msg |-> "Done!"]>>
    /\ pc' = "done"
    /\ UNCHANGED <<config, harnessVars, remote, workouts, i, workout,
                   modified_count, modified_total, processed, puts>>

Next ==
    \/ ListWorkouts
    \/ ListWorkoutsRaises
    \/ SkipSport
    \/ SkipName
    \/ Fetch
    \/ FetchRaises
    \/ Modify
    \/ NoChanges
    \/ ReportModified
    \/ DryRun
    \/ UpdateOk
    \/ UpdateRaises
    \/ Summary

Spec == Init /\ [][Next]_vars

\* The interpreter keeps running the loop, and every call to the service
\* returns or raises.
LiveSpec == Spec /\ WF_vars(Next)

---------------------------------------------------------------------------
(* Properties of the classifier (checked under ClassifySpec). *)

HasHardMarker(s) == AnyPatternIn(HARD_DESCRIPTION_PATTERNS, description_of(s))

HasEasyMarker(s) == AnyPatternIn(EASY_DESCRIPTION_PATTERNS, description_of(s))

HasKey(s, key) ==
    /\ "stepType" \in DOMAIN s
    /\ "stepTypeKey" \in DOMAIN s.stepType
    /\ s.stepType.stepTypeKey = S(key)

TargetTypeIdIs(s, ids) ==
    /\ "targetType" \in DOMAIN s
    /\ s.targetType # Null
    /\ "workoutTargetTypeId" \in DOMAIN s.targetType
    /\ s.targetType.workoutTargetTypeId \in ids

\* "No target": targetType absent or null, or its workoutTargetTypeId absent,
\* null or the sentinel 1.
NoTarget(s) ==
    \/ "targetType" \notin DOMAIN s
    \/ s.targetType = Null
    \/ "workoutTargetTypeId" \notin DOMAIN s.targetType
    \/ s.targetType.workoutTargetTypeId \in {Null, N(1)}

\* C1: a leaf step whose type key is "interval" is classified easy if and
\* only if its description holds an easy-effort marker and no hard-effort
\* marker, whatever its type id.
C1_IntervalEasyIffMarker ==
    (pc # "step" /\ HasKey(step, INTERVAL_KEY))
        => (verdict.is_easy_step <=> (HasEasyMarker(step) /\ ~HasHardMarker(step)))

\* C2: a leaf step whose description holds a hard-effort marker is never
\* classified easy, whatever its type key and type id, and the walker leaves
\* it as it was and counts nothing.
C2_HardMarkerNeverEasy ==
    (pc # "step" /\ HasHardMarker(step))
        => /\ ~verdict.is_easy_step
           /\ ~verdict.should_add_hr_zone
           /\ pc = "walked" => /\ passes[1].steps = <<step>>
                               /\ passes[1].modified_count = 0

C2_Witness ==
    /\ pc = "walked"
    /\ HasHardMarker(step)
    /\ HasKey(step, <<"W", "A", "R", "M", "U", "P">>)
    /\ step_id_of(step) = N(3)
    /\ NoTarget(step)

\* C3: should_add_hr_zone holds exactly when is_easy_step holds and the step
\* has no target (targetType absent or null, or its type id absent, null or
\* the sentinel 1); a step with any other target type id is left as it was.
C3_AddIffEasyAndNoTarget ==
    pc # "step"
        => /\ verdict.has_no_target <=> NoTarget(step)
           /\ verdict.should_add_hr_zone <=> (verdict.is_easy_step /\ NoTarget(step))
           /\ pc = "walked" =>
                 /\ passes[1].modified_count = (IF verdict.should_add_hr_zone THEN 1 ELSE 0)
                 /\ ~NoTarget(step) => passes[1].steps = <<step>>

C3_Witness ==
    /\ pc = "walked"
    /\ verdict.is_easy_step
    /\ TargetTypeIdIs(step, {N(NO_TARGET_TYPE_ID)})
    /\ passes[1].modified_count = 1
    /\ passes[1].steps # <<step>>

---------------------------------------------------------------------------
(* Properties of the walker (checked under TreeSpec). *)

RECURSIVE Leaves(_)
Leaves(steps) ==
    IF steps = <<>>
    THEN <<>>
    ELSE (IF "workoutSteps" \in DOMAIN Head(steps)
          THEN Leaves(Head(steps).workoutSteps)
          ELSE <<Head(steps)>>) \o Leaves(Tail(steps))

RECURSIVE SegmentLeaves(_)
SegmentLeaves(segments) ==
    IF segments = <<>>
    THEN <<>>
    ELSE (IF "workoutSteps" \in DOMAIN Head(segments)
          THEN Leaves(Head(segments).workoutSteps)
          ELSE <<>>) \o SegmentLeaves(Tail(segments))

WorkoutLeaves(w) ==
    IF "workoutSegments" \in DOMAIN w THEN SegmentLeaves(w.workoutSegments) ELSE <<>>

Qualifying(leaves) ==
    Cardinality({k \in 1..Len(leaves) : should_add_hr_zone(leaves[k])})

TargetFields == {"targetType", "targetValueOne", "targetValueTwo", "zoneNumber"}

SameExcept(a, b, keys) ==
    /\ DOMAIN a \ keys = DOMAIN b \ keys
    /\ \A k \in DOMAIN a \ keys : a[k] = b[k]

RECURSIVE StepsFrame(_, _)
StepsFrame(before, after) ==
    /\ Len(after) = Len(before)
    /\ \A k \in 1..Len(before) :
          LET a == before[k]
              b == after[k]
          IN  IF "workoutSteps" \in DOMAIN a
              THEN /\ "workoutSteps" \in DOMAIN b
                   /\ SameExcept(a, b, {"workoutSteps"})
                   /\ StepsFrame(a.workoutSteps, b.workoutSteps)
              ELSE /\ "workoutSteps" \notin DOMAIN b
                   /\ SameExcept(a, b, TargetFields)
                   /\ ~should_add_hr_zone(a) => b = a

WorkoutFrame(before, after) ==
    /\ SameExcept(before, after, {"workoutSegments"})
    /\ ("workoutSegments" \in DOMAIN before) <=> ("workoutSegments" \in DOMAIN after)
    /\ "workoutSegments" \in DOMAIN before =>
          /\ Len(after.workoutSegments) = Len(before.workoutSegments)
          /\ \A k \in 1..Len(before.workoutSegments) :
                LET a == before.workoutSegments[k]
                    b == after.workoutSegments[k]
                IN  /\ SameExcept(a, b, {"workoutSteps"})
                    /\ ("workoutSteps" \in DOMAIN a) <=> ("workoutSteps" \in DOMAIN b)
                    /\ "workoutSteps" \in DOMAIN a =>
                          StepsFrame(a.workoutSteps, b.workoutSteps)

\* C4: idempotence.  Applying modify_workout to the result of a first
\* application modifies no step (count 0) and returns that result unchanged,
\* for every tree and every zone number; the same holds of
\* process_workout_steps on each segment's steps.
C4_SecondPassChangesNothing ==
    pc = "twice"
        => /\ passes[2].total_modified = 0
           /\ passes[2].workout = passes[1].workout
           /\ "workoutSegments" \in DOMAIN tree =>
                 \A k \in 1..Len(passes[1].workout.workoutSegments) :
                    LET seg == passes[1].workout.workoutSegments[k]
                    IN  "workoutSteps" \in DOMAIN seg =>
                           LET again == process_workout_steps(seg.workoutSteps, 0, verbose, hr_zone)
                           IN  again.modified_count = 0 /\ again.steps = seg.workoutSteps

C4_Witness ==
    /\ pc = "twice"
    /\ passes[1].total_modified >= 2
    /\ passes[1].workout # tree
    /\ \E k \in 1..Len(tree.workoutSegments) :
          /\ "workoutSteps" \in DOMAIN tree.workoutSegments[k]
          /\ \E j \in 1..Len(tree.workoutSegments[k].workoutSteps) :
                "workoutSteps" \in DOMAIN tree.workoutSegments[k].workoutSteps[j]

\* C5: the walker, started with a count of 0, visits every leaf step of the
\* tree once, in order, at every depth, and returns the number of leaves for
\* which should_add_hr_zone held on the input; repeat groups are neither
\* classified nor counted; modify_workout returns the sum over its segments.
C5_CountIsQualifyingLeaves ==
    pc # "tree"
        => LET leaves == WorkoutLeaves(tree)
           IN  /\ passes[1].total_modified = Qualifying(leaves)
               /\ "workoutSegments" \in DOMAIN tree =>
                     /\ Len(passes[1].out) = Len(leaves)
                     /\ \A k \in 1..Len(leaves) :
                           /\ passes[1].out[k].msg =
                                 (IF should_add_hr_zone(leaves[k]) THEN "+" ELSE "-")
                           /\ passes[1].out[k].step = describe_step(leaves[k])
                     /\ \A k \in 1..Len(tree.workoutSegments) :
                           LET seg == tree.workoutSegments[k]
                           IN  "workoutSteps" \in DOMAIN seg =>
                                  process_workout_steps(seg.workoutSteps, 0, verbose, hr_zone).modified_count
                                     = Qualifying(Leaves(seg.workoutSteps))

C5_Witness ==
    /\ pc = "once"
    /\ "workoutSegments" \in DOMAIN tree
    /\ tree.workoutSegments =
          <<Segment(1, <<WarmupTypedGroup(<<RepeatGroup(<<WarmupLeaf>>)>>)>>)>>
    /\ passes[1].total_modified = 1
    /\ Len(passes[1].out) = 1

\* C6: shape and frame.  The result of a pass has the nodes of the input in
\* the same order and nesting; a leaf differs from its input at most in
\* targetType, targetValueOne, targetValueTwo and zoneNumber; a leaf that
\* did not qualify is unchanged; a repeat group differs only in its child
\* sequence, which is the processed children.
C6_ShapeAndFramePreserved ==
    pc # "tree" => WorkoutFrame(tree, passes[1].workout)

C6_Witness ==
    /\ pc = "once"
    /\ "workoutSegments" \in DOMAIN tree
    /\ tree.workoutSegments =
          <<Segment(1, <<RepeatGroup(<<EasyIntervalLeaf, HardIntervalLeaf>>)>>)>>
    /\ passes[1].workout.workoutSegments[1].workoutSteps[1].workoutSteps[1]
          = add_hr_zone_to_step(EasyIntervalLeaf, hr_zone)
    /\ passes[1].workout.workoutSegments[1].workoutSteps[1].workoutSteps[2]
          = HardIntervalLeaf

---------------------------------------------------------------------------
(* Properties of process_all_workouts (checked under Spec and LiveSpec).   *)
(* A workout's lifecycle state is read off the program: the lines printed  *)
(* for it once it is finished, the program position while it is current.   *)

PassesFilters(summary) ==
    /\ "sportType" \in DOMAIN summary
    /\ summary.sportType.sportTypeKey = S("running")
    /\ \/ filter_name = Null
       \/ filter_name.str = <<>>
       \/ /\ "workoutName" \in DOMAIN summary
          /\ Contains(Lower(filter_name.str), Lower(summary.workoutName.str))

Started(id) == {p \in 1..Len(out) : out[p].msg = "Processing" /\ out[p].id = id}

IsBoundary(line) == line.msg \in {"Processing", "Skip", "Summary", "Error", "Done!"}

\* The lines printed for workout id after its "Processing" line.
Report(id) ==
    IF Started(id) = {}
    THEN {}
    ELSE LET p == CHOOSE q \in Started(id) : TRUE
         IN  { out[q] : q \in { q \in (p + 1)..Len(out) :
                                  \A r \in (p + 1)..q : ~IsBoundary(out[r]) } }

Outcomes(id) ==
    {l.msg : l \in Report(id)}
       \cap {"No changes needed", "DRY RUN", "Updated successfully", "Failed to update"}

IsCurrent(id) == i \in 1..Len(workouts) /\ workouts[i].workoutId = id

Life(id) ==
    IF Started(id) = {} THEN "Listed"
    ELSE IF Cardinality(Started(id)) > 1 \/ Cardinality(Outcomes(id)) > 1 THEN "Repeated"
    ELSE IF Outcomes(id) = {"No changes needed"} THEN "Unchanged"
    ELSE IF Outcomes(id) = {"DRY RUN"} THEN "Skipped"
    ELSE IF Outcomes(id) = {"Updated successfully"} THEN "Pushed"
    ELSE IF Outcomes(id) = {"Failed to update"} THEN "PushFailed"
    ELSE IF ~IsCurrent(id) THEN "Lost"
    ELSE IF pc = "fetched" THEN "Fetched"
    ELSE IF pc = "classified" THEN "Classified"
    ELSE IF pc = "mutated" THEN "Mutated"
    ELSE IF pc = "exit1" THEN "FetchRaised"
    ELSE "Lost"

Terminal == {"Unchanged", "Skipped", "Pushed", "PushFailed"}

Forward ==
    { <<"Listed", "Fetched">>, <<"Listed", "FetchRaised">>,
      <<"Fetched", "Classified">>,
      <<"Classified", "Unchanged">>, <<"Classified", "Mutated">>,
      <<"Mutated", "Skipped">>, <<"Mutated", "Pushed">>, <<"Mutated", "PushFailed">> }

Ids == {workouts[k].workoutId : k \in 1..Len(workouts)}

PutsFor(id) == {p \in 1..Len(puts) : puts[p].workoutId = id}

ReportedModified(id) == \E l \in Report(id) : l.msg = "Modified" /\ l.n > 0

Count(msg) == Cardinality({p \in 1..Len(out) : out[p].msg = msg})

\* C7: with dry_run set no update request is ever issued, whatever the
\* workouts and their modification counts; a modified workout is reported
\* ("DRY RUN") and dropped.
C7_DryRunNeverUpdates ==
    dry_run
        => /\ puts = <<>>
           /\ processed = 0
           /\ \A id \in Ids : Life(id) \notin {"Pushed", "PushFailed"}
           /\ \A k \in 1..Len(workouts) : k < i /\ PassesFilters(workouts[k])
                 => Life(workouts[k].workoutId) \in {"Unchanged", "Skipped"}

C7_Witness ==
    /\ dry_run
    /\ pc = "done"
    /\ modified_total >= 4
    /\ Count("DRY RUN") = 2

\* Every summary the loop has gone past that passes the filters was fetched
\* and classified and, when steps were modified and dry_run is off, pushed
\* once.
FinishedBefore(n) ==
    \A k \in 1..Len(workouts) : (k < n /\ PassesFilters(workouts[k]))
        => LET id == workouts[k].workoutId
           IN  /\ Life(id) \in Terminal
               /\ (ReportedModified(id) /\ ~dry_run) <=> Cardinality(PutsFor(id)) = 1
               /\ ReportedModified(id) \/ Life(id) = "Unchanged"

\* A run ends in main's handler only when the listing or a fetch raised.
AbortedByListOrFetch ==
    /\ out[Len(out)].msg = "Error"
    /\ Len(out) = 1 \/ out[Len(out) - 1].msg = "Processing"

UpdateAttempt == pc = "mutated" /\ ~dry_run

\* C8: a failed update is reported for its workout only, is not counted as
\* updated, and does not end the loop: the failed attempt moves on to the
\* next summary exactly as a successful one does, and every summary the loop
\* goes past that passes the filters is fetched, classified and, if modified
\* with dry_run off, pushed.
C8_UpdateFailureContinues ==
    /\ [][UpdateAttempt =>
             /\ pc' = "loop" /\ i' = i + 1 /\ workouts' = workouts
             /\ Len(puts') = Len(puts) + 1
             /\ IF puts'[Len(puts')].ok
                THEN processed' = processed + 1
                ELSE /\ processed' = processed
                     /\ remote' = remote
                     /\ \A id \in Ids :
                           IF id = workouts[i].workoutId
                           THEN Life(id)' = "PushFailed"
                           ELSE Life(id)' = Life(id)]_vars
    /\ [](/\ processed = Cardinality({p \in 1..Len(puts) : puts[p].ok})
          /\ Count("Failed to update") = Cardinality({p \in 1..Len(puts) : ~puts[p].ok})
          /\ pc = "exit1" => AbortedByListOrFetch
          /\ FinishedBefore(i))

C8_Witness ==
    /\ pc = "done"
    /\ Len(workouts) >= 2
    /\ Life(workouts[1].workoutId) = "PushFailed"
    /\ Life(workouts[2].workoutId) = "Pushed"
    /\ processed = 1

\* C9: a workout that passes the filters moves only forward through
\* Fetched, Classified, Unchanged or Mutated, and from Mutated to Skipped,
\* Pushed or PushFailed; once the loop has gone past it, it is in exactly one
\* of Unchanged, Skipped, Pushed, PushFailed; the update is requested at most
\* once per workout, and never for a workout with a modification count of 0.
C9_LifecycleForwardOnly ==
    /\ [][/\ \A id \in Ids :
                \/ Life(id)' = Life(id)
                \/ <<Life(id), Life(id)'>> \in Forward
          /\ puts' # puts => /\ modified_count > 0
                             /\ Life(workouts[i].workoutId) = "Mutated"
                             /\ puts' = Append(puts, puts'[Len(puts')])
                             /\ puts'[Len(puts')].workoutId = workouts[i].workoutId]_vars
    /\ [](\A k \in 1..Len(workouts) :
             LET id == workouts[k].workoutId
             IN  /\ Cardinality(PutsFor(id)) <= 1
                 /\ PutsFor(id) # {} => ReportedModified(id)
                 /\ Life(id) = "Unchanged" => PutsFor(id) = {}
                 /\ ~PassesFilters(workouts[k]) => Life(id) = "Listed"
                 /\ (PassesFilters(workouts[k]) /\ (k < i \/ pc = "done"))
                       => Life(id) \in Terminal
                 /\ (PassesFilters(workouts[k]) /\ k > i) => Life(id) = "Listed")

C9_Witness ==
    /\ pc = "done"
    /\ Len(workouts) >= 2
    /\ "workoutSegments" \notin DOMAIN remote[1].detail
    /\ Life(workouts[1].workoutId) = "Unchanged"
    /\ Life(workouts[2].workoutId) = "PushFailed"
    /\ Len(puts) = 1

SummaryLines == {p \in 1..Len(out) : out[p].msg = "Summary"}

RECURSIVE StepsReported(_)
StepsReported(lines) ==
    IF lines = <<>>
    THEN 0
    ELSE (IF Head(lines).msg = "Modified" THEN Head(lines).n ELSE 0)
            + StepsReported(Tail(lines))

SummaryPrinted ==
    /\ SummaryLines = {Len(out) - 1}
    /\ out[Len(out) - 1].processed = Cardinality({p \in 1..Len(puts) : puts[p].ok})
    /\ out[Len(out) - 1].modified_total = StepsReported(out)

=============================================================================
